---------------------------- MODULE Spec2Model ----------------------------
(***************************************************************************)
(* ProductController (src/controllers/product.controller.ts): the REST     *)
(* handlers over the product repository, the conversion of an inline       *)
(* base64 preview image into a file on PUT, and the removal of that file   *)
(* on DELETE.                                                              *)
(*                                                                         *)
(* A JavaScript string is modelled as a sequence of tokens.  The           *)
(* separators the code splits on ("/" and ";") are tokens of their own,    *)
(* every other token is a run of characters holding neither.  The empty    *)
(* string is << >>.                                                        *)
(***************************************************************************)
EXTENDS Integers, Sequences, FiniteSets, TLC

(***************************************************************************)
(* Bounds of the model.                                                    *)
(***************************************************************************)
\* HTTP requests handled in one behaviour
MaxCalls == 2
\* records the store ever creates (ids "1" .. MaxId)
MaxId == 2

(***************************************************************************)
(* JavaScript values.                                                      *)
(***************************************************************************)
\* the value of a property the request body does not carry
undefined == <<"#undefined">>

\* a value used in an if (...) or after ?. : undefined and '' are falsy
Truthy(s) == s # undefined /\ s # << >>

\* `${v}`
TemplateString(v) == IF v = undefined THEN <<"undefined">> ELSE v

\* s.startsWith(prefix)
StartsWith(s, prefix) ==
    /\ Len(s) >= Len(prefix)
    /\ SubSeq(s, 1, Len(prefix)) = prefix

\* s.split(sep): the segments between the occurrences of the token sep
RECURSIVE Split(_, _)
Split(s, sep) ==
    IF \A i \in 1..Len(s) : s[i] # sep
    THEN << s >>
    ELSE LET i == CHOOSE k \in 1..Len(s) :
                     /\ s[k] = sep
                     /\ \A j \in 1..(k - 1) : s[j] # sep
         IN  << SubSeq(s, 1, i - 1) >> \o Split(SubSeq(s, i + 1, Len(s)), sep)

\* array.pop(): the last element
Pop(a) == a[Len(a)]

(***************************************************************************)
(* Constants of the controller.                                            *)
(***************************************************************************)
IMAGE_FOLDER == <<"images">>
PRODUCT_IMAGE_FOLDER == <<"product">>
PRODUCT_IMAGE_PREVIEW_PREFIX == <<"preview_">>

\* path.join(IMAGE_FOLDER, PRODUCT_IMAGE_FOLDER)
imageStorageDirectory == IMAGE_FOLDER \o <<"/">> \o PRODUCT_IMAGE_FOLDER

\* the literal tested by replaceById
DataImagePrefix == <<"data:image">>

\* the alternatives of /jpeg|png|jpg/
ExtWords == {"jpeg", "png", "jpg"}

(***************************************************************************)
(* The inputs of the model.                                                *)
(***************************************************************************)
\* base64 payloads and the bytes they decode to
Payloads == {"QQ==", "Qg=="}
Base64Table == [p \in Payloads |-> IF p = "QQ==" THEN <<65>> ELSE <<66>>]

\* tokens that are runs of word characters (\w+)
WordTokens == ExtWords \cup {"gif"}

\* data:image/<subtype>;base64,<payload>
DataUri(subtype, payload) ==
    <<"data:image", "/", subtype, ";", "base64,", payload>>

\* <protocol>://<host>/product-images/<file>
ImageUrl(protocol, host, file) ==
    <<protocol, ":", "/", "/", host, "/", "product-images", "/">> \o file

\* the ids the store assigns, "1" .. "MaxId"
StoreIds == {<<ToString(i)>> : i \in 1..MaxId}

\* the id of the request path
PathIds == StoreIds

\* the id property of a request body: a store id or none
BodyIds == StoreIds \cup {undefined}

\* the name property, standing for every property other than previewImage
Names == {<<"a">>}

\* req.protocol and req.headers.host of the inbound requests
Reqs == {[protocol |-> "http", host |-> "h1"],
         [protocol |-> "https", host |-> "h2"]}

\* the previewImage values request bodies carry
DataUris == {DataUri("png", "QQ=="), DataUri("png", "Qg=="),
             DataUri("jpeg", "QQ=="), DataUri("gif", "QQ==")}
PlainImages == {<< >>,
                <<"http", ":", "/", "/", "h1", "/">>,
                ImageUrl("http", "h1", <<"preview_", "2", ".", "png">>)}
PreviewImages == {undefined} \cup PlainImages \cup DataUris

Calls == 1..MaxCalls

(***************************************************************************)
(* The computations of handleRawImageProductReplacement and                *)
(* deleteProductPreviewImage.                                              *)
(***************************************************************************)
\* previewImage.split(';')[0].match(/jpeg|png|jpg/)?.[0] ?? ''
ExtOf(previewImage) ==
    LET head == Split(previewImage, ";")[1]
        hits == {i \in 1..Len(head) : head[i] \in ExtWords}
    IN  IF hits = {}
        THEN << >>
        ELSE << head[CHOOSE i \in hits : \A j \in hits : i <= j] >>

\* previewImage.replace(/^data:image\/\w+;base64,/, '')
StripDataPrefix(previewImage) ==
    IF /\ Len(previewImage) >= 5
       /\ previewImage[1] = "data:image"
       /\ previewImage[2] = "/"
       /\ previewImage[3] \in WordTokens
       /\ previewImage[4] = ";"
       /\ previewImage[5] = "base64,"
    THEN SubSeq(previewImage, 6, Len(previewImage))
    ELSE previewImage

\* Buffer.from(data, 'base64'): the bytes of the payload tokens, in order
RECURSIVE BufferFromBase64(_)
BufferFromBase64(data) ==
    IF data = << >>
    THEN << >>
    ELSE (IF Head(data) \in Payloads THEN Base64Table[Head(data)] ELSE << >>)
         \o BufferFromBase64(Tail(data))

\* `${PRODUCT_IMAGE_PREVIEW_PREFIX}${product.id}.${ext}`
StorageFileName(product, ext) ==
    PRODUCT_IMAGE_PREVIEW_PREFIX \o TemplateString(product.id) \o <<".">> \o ext

\* `${this.imageStorageDirectory}/${name}`
StoragePath(name) == imageStorageDirectory \o <<"/">> \o name

\* `${this.req.protocol}://${this.req.headers.host}/product-images/${storageFileName}`
PublicUrl(req, storageFileName) ==
    ImageUrl(req.protocol, req.host, storageFileName)

\* product.previewImage?.split('/').pop()
PreviewFileName(product) ==
    IF product.previewImage = undefined
    THEN undefined
    ELSE Pop(Split(product.previewImage, "/"))

(***************************************************************************)
(* State.                                                                  *)
(***************************************************************************)
VARIABLES
    db,      \* the product repository: id -> stored product
    nextId,  \* the number of the id the repository assigns next
    files,   \* the file system: path -> bytes
    calls    \* the requests: inputs, position, response and what each did

vars == <<db, nextId, files, calls>>

\* a product: the id, previewImage, and name for the other properties
Product(id, name, previewImage) ==
    [id |-> id, name |-> name, previewImage |-> previewImage]

NoProduct == Product(undefined, undefined, undefined)
NoReq == [protocol |-> "", host |-> ""]

\* one thing a request did: a call of a collaborator, a completion, a response
Event(ev, target, arg) == [ev |-> ev, target |-> target, arg |-> arg]

\* a request that has not arrived yet
IdleCall ==
    [op |-> "none", id |-> undefined, body |-> NoProduct,
     product |-> NoProduct, req |-> NoReq,
     pc |-> "idle", storageFileName |-> << >>, buf |-> << >>, error |-> FALSE,
     unlink |-> "none", unlinkPath |-> << >>, response |-> "none",
     fileName |-> << >>, trace |-> << >>]

\* the repository when the controller is constructed: empty, or holding the
\* product an earlier POST /products left, its preview image no data-URI
InitialStores ==
    {<< >>}
    \cup {[id \in {<<"1">>} |-> Product(<<"1">>, name, previewImage)] :
              name \in Names, previewImage \in {undefined} \cup PlainImages}

Init ==
    /\ db \in InitialStores
    /\ nextId = Cardinality(DOMAIN db) + 1
    /\ files = << >>
    /\ calls = [c \in Calls |-> IdleCall]

\* requests arrive in the order of their numbers
Arrives(c) ==
    /\ calls[c].pc = "idle"
    /\ IF c = 1 THEN TRUE ELSE calls[c - 1].pc # "idle"

(***************************************************************************)
(* The product repository.                                                 *)
(***************************************************************************)
Exists(id) == id \in DOMAIN db

\* a function with one more point, or one point changed
Put(f, k, v) == [x \in DOMAIN f \cup {k} |-> IF x = k THEN v ELSE f[x]]

\* a function with one point less
Remove(f, k) == [x \in DOMAIN f \ {k} |-> f[x]]

\* create(product): the store assigns the id
RepoCreated(product) ==
    [product EXCEPT !.id = <<ToString(nextId)>>]

\* replaceById(id, product) on an existing id
RepoReplaced(id, product) == Put(db, id, [product EXCEPT !.id = id])

\* updateById(id, patch) on an existing id: the properties the patch carries
RepoUpdated(id, patch) ==
    Put(db, id,
        [id |-> id,
         name |-> IF patch.name = undefined
                  THEN db[id].name ELSE patch.name,
         previewImage |-> IF patch.previewImage = undefined
                          THEN db[id].previewImage ELSE patch.previewImage])

(***************************************************************************)
(* What a request records.                                                 *)
(***************************************************************************)
\* the call record after the request did the events es
Did(call, es) == [call EXCEPT !.trace = @ \o es]

\* the events of a repository call by id: the call, and the NotFound the
\* repository raises when it holds no product of that id
RepoCall(method, id, arg) ==
    << Event(method, id, arg) >>
    \o (IF Exists(id) THEN << >> ELSE << Event("NotFound", id, << >>) >>)

\* the response the caller receives
Responds(call, status) ==
    [call EXCEPT !.response = status,
                 !.trace = @ \o << Event("response", status, << >>) >>]

(***************************************************************************)
(* POST /products                                                          *)
(***************************************************************************)
Create(c) ==
    \E name \in Names, previewImage \in PreviewImages :
        LET product == Product(undefined, name, previewImage)
            created == RepoCreated(product)
        IN  /\ Arrives(c)
            /\ nextId <= MaxId
            /\ db' = Put(db, created.id, created)
            /\ nextId' = nextId + 1
            /\ calls' = [calls EXCEPT ![c] =
                   Responds(Did([@ EXCEPT !.op = "create",
                                          !.body = product,
                                          !.product = product,
                                          !.pc = "done"],
                                << Event("repo.create", created.id, product) >>),
                            "200")]
            /\ UNCHANGED files

(***************************************************************************)
(* GET /products/{id}                                                      *)
(***************************************************************************)
FindById(c) ==
    \E id \in PathIds :
        /\ Arrives(c)
        /\ calls' = [calls EXCEPT ![c] =
               Responds(Did([@ EXCEPT !.op = "findById", !.id = id,
                                      !.product = IF Exists(id) THEN db[id]
                                                  ELSE NoProduct,
                                      !.pc = "done"],
                            RepoCall("repo.findById", id, << >>)),
                        IF Exists(id) THEN "200" ELSE "404")]
        /\ UNCHANGED <<db, nextId, files>>

(***************************************************************************)
(* PATCH /products/{id}                                                    *)
(***************************************************************************)
\* the partial products a PATCH carries
Patches ==
    {Product(undefined, name, undefined) : name \in Names}
    \cup {Product(undefined, undefined, previewImage) :
              previewImage \in PlainImages \cup {DataUri("png", "QQ==")}}

UpdateById(c) ==
    \E id \in PathIds, product \in Patches :
        /\ Arrives(c)
        /\ db' = IF Exists(id) THEN RepoUpdated(id, product) ELSE db
        /\ calls' = [calls EXCEPT ![c] =
               Responds(Did([@ EXCEPT !.op = "updateById", !.id = id,
                                      !.body = product,
                                      !.product = product, !.pc = "done"],
                            RepoCall("repo.updateById", id, product)),
                        IF Exists(id) THEN "204" ELSE "404")]
        /\ UNCHANGED <<nextId, files>>

(***************************************************************************)
(* PUT /products/{id}                                                      *)
(***************************************************************************)
\* product.previewImage?.startsWith('data:image')
StartsWithDataImage(product) ==
    /\ product.previewImage # undefined
    /\ StartsWith(product.previewImage, DataImagePrefix)

\* PlainReplacement with the id of the body in the place of the id of the path
PlainReplacementByBodyId(c, call, id, product) ==
    /\ db' = IF Exists(product.id) THEN RepoReplaced(product.id, product)
             ELSE db
    /\ calls' = [calls EXCEPT ![c] =
           Responds(Did([call EXCEPT !.pc = "done"],
                        RepoCall("repo.replaceById", product.id, product)),
                    IF Exists(product.id) THEN "204" ELSE "404")]

\* await this.productRepository.replaceById(id, product), then the response
PlainReplacement(c, call, id, product) ==
    /\ db' = IF Exists(id) THEN RepoReplaced(id, product) ELSE db
    /\ calls' = [calls EXCEPT ![c] =
           Responds(Did([call EXCEPT !.pc = "done"],
                        RepoCall("repo.replaceById", id, product)),
                    IF Exists(id) THEN "204" ELSE "404")]

\* HandleRawImageProductReplacement with the repository replaced at once,
\* beside the write and not in its callback
HandleRawImageProductReplacementUnordered(c, call, product) ==
    \E req \in Reqs :
        LET storageFileName == StorageFileName(product, ExtOf(product.previewImage))
            buf == BufferFromBase64(StripDataPrefix(product.previewImage))
        IN  /\ calls' = [calls EXCEPT ![c] =
                   Responds(Did([call EXCEPT !.pc = "writeFile",
                                             !.req = req,
                                             !.storageFileName = storageFileName,
                                             !.buf = buf],
                                << Event("fs.writeFile",
                                         StoragePath(storageFileName), buf) >>
                                \o RepoCall("repo.replaceById", product.id,
                                            product)),
                            "204")]
            /\ db' = IF Exists(product.id)
                     THEN RepoReplaced(product.id, product) ELSE db

\* handleRawImageProductReplacement awaiting the write: no return while the
\* write is pending
HandleRawImageProductReplacementAwaitingWrite(c, call, product) ==
    \E req \in Reqs :
        LET storageFileName == StorageFileName(product, ExtOf(product.previewImage))
            buf == BufferFromBase64(StripDataPrefix(product.previewImage))
        IN  /\ calls' = [calls EXCEPT ![c] =
                   Did([call EXCEPT !.pc = "writeFile",
                                    !.req = req,
                                    !.storageFileName = storageFileName,
                                    !.buf = buf],
                       << Event("fs.writeFile",
                                StoragePath(storageFileName), buf) >>)]
            /\ UNCHANGED db

\* handleRawImageProductReplacement(product) up to its return
HandleRawImageProductReplacement(c, call, product) ==
    IF ~ Truthy(product.previewImage)
    THEN PlainReplacement(c, call, product.id, product)
    ELSE \E req \in Reqs :
         LET ext == ExtOf(product.previewImage)
             data == StripDataPrefix(product.previewImage)
             buf == BufferFromBase64(data)
             storageFileName == StorageFileName(product, ext)
         IN  /\ calls' = [calls EXCEPT ![c] =
                    Responds(Did([call EXCEPT !.pc = "writeFile",
                                              !.req = req,
                                              !.storageFileName = storageFileName,
                                              !.buf = buf],
                                 << Event("fs.writeFile",
                                          StoragePath(storageFileName), buf) >>),
                             "204")]
             /\ UNCHANGED db

ReplaceById(c) ==
    \E id \in PathIds, bodyId \in BodyIds, name \in Names,
       previewImage \in PreviewImages :
        LET product == Product(bodyId, name, previewImage)
            call == [calls[c] EXCEPT !.op = "replaceById", !.id = id,
                                     !.body = product,
                                     !.product = product]
        IN  /\ Arrives(c)
            /\ IF StartsWithDataImage(product)
               THEN HandleRawImageProductReplacement(c, call, product)
               ELSE PlainReplacement(c, call, id, product)
            /\ UNCHANGED <<nextId, files>>

\* the outcomes of fs.writeFile(path, buf): written; failed before the file
\* was opened; failed after it was opened and truncated
WriteOutcomes(path, buf) ==
    {[error |-> FALSE, files |-> Put(files, path, buf)],
     [error |-> TRUE, files |-> files],
     [error |-> TRUE, files |-> Put(files, path, << >>)]}

\* fs.writeFile completes
WriteFileComplete(c) ==
    LET call == calls[c]
        path == StoragePath(call.storageFileName)
    IN  /\ call.pc = "writeFile"
        /\ \E outcome \in WriteOutcomes(path, call.buf) :
               /\ files' = outcome.files
               /\ calls' = [calls EXCEPT ![c] =
                      Did([call EXCEPT !.pc = "callback",
                                       !.error = outcome.error],
                          << Event("fs.writeFile.done", path, outcome.error) >>)]
        /\ UNCHANGED <<db, nextId>>

\* WriteFileCallback returning after the warning when the write failed
WriteFileCallbackAbortOnError(c) ==
    LET call == calls[c]
        product == [call.product EXCEPT !.previewImage =
                        PublicUrl(call.req, call.storageFileName)]
    IN  /\ call.pc = "callback"
        /\ db' = IF ~ call.error /\ Exists(product.id)
                 THEN RepoReplaced(product.id, product) ELSE db
        /\ calls' = [calls EXCEPT ![c] =
               IF call.error
               THEN Did([call EXCEPT !.pc = "done"],
                        << Event("console.warn", call.product.id, << >>) >>)
               ELSE Did([call EXCEPT !.pc = "done", !.product = product],
                        RepoCall("repo.replaceById", product.id, product))]
        /\ UNCHANGED <<nextId, files>>

\* WriteFileCallback replacing once before and once after the error check
WriteFileCallbackReplacingTwice(c) ==
    LET call == calls[c]
        product == IF call.error
                   THEN call.product
                   ELSE [call.product EXCEPT !.previewImage =
                             PublicUrl(call.req, call.storageFileName)]
    IN  /\ call.pc = "callback"
        /\ db' = IF Exists(product.id) THEN RepoReplaced(product.id, product)
                 ELSE db
        /\ calls' = [calls EXCEPT ![c] =
               Did([call EXCEPT !.pc = "done", !.product = product],
                   RepoCall("repo.replaceById", call.product.id, call.product)
                   \o RepoCall("repo.replaceById", product.id, product))]
        /\ UNCHANGED <<nextId, files>>

\* WriteFileCallback leaving a record that another request has replaced
WriteFileCallbackFirstReplaceWins(c) ==
    LET call == calls[c]
        product == IF call.error
                   THEN call.product
                   ELSE [call.product EXCEPT !.previewImage =
                             PublicUrl(call.req, call.storageFileName)]
        replaced == \E d \in DOMAIN calls :
                        /\ d # c
                        /\ \E i \in DOMAIN calls[d].trace :
                               /\ calls[d].trace[i].ev = "repo.replaceById"
                               /\ calls[d].trace[i].target = product.id
    IN  /\ call.pc = "callback"
        /\ db' = IF Exists(product.id) /\ ~ replaced
                 THEN RepoReplaced(product.id, product) ELSE db
        /\ calls' = [calls EXCEPT ![c] =
               Did([call EXCEPT !.pc = "done", !.product = product],
                   RepoCall("repo.replaceById", product.id, product))]
        /\ UNCHANGED <<nextId, files>>

\* the callback given to fs.writeFile
WriteFileCallback(c) ==
    LET call == calls[c]
        product == IF call.error
                   THEN call.product
                   ELSE [call.product EXCEPT !.previewImage =
                             PublicUrl(call.req, call.storageFileName)]
        warned == IF call.error
                  THEN << Event("console.warn", product.id, << >>) >>
                  ELSE << >>
    IN  /\ call.pc = "callback"
        /\ db' = IF Exists(product.id) THEN RepoReplaced(product.id, product)
                 ELSE db
        /\ calls' = [calls EXCEPT ![c] =
               Did([call EXCEPT !.pc = "done", !.product = product],
                   warned
                   \o RepoCall("repo.replaceById", product.id, product)
                   \o (IF Exists(product.id) THEN << >>
                       ELSE << Event("unhandledRejection", product.id, << >>) >>))]
        /\ UNCHANGED <<nextId, files>>

(***************************************************************************)
(* DELETE /products/{id}                                                   *)
(***************************************************************************)
\* DeleteProductPreviewImage with the whole previewImage as the file name
DeleteProductPreviewImageUnsplit(call) ==
    LET path == StoragePath(call.product.previewImage)
    IN  Did([call EXCEPT !.unlink = "pending", !.unlinkPath = path],
            << Event("fs.unlink", path, << >>) >>)

\* deleteProductPreviewImage(product)
DeleteProductPreviewImage(call) ==
    LET previewFileName == PreviewFileName(call.product)
        path == StoragePath(previewFileName)
    IN  IF Truthy(previewFileName)
        THEN Did([call EXCEPT !.unlink = "pending", !.unlinkPath = path],
                 << Event("fs.unlink", path, << >>) >>)
        ELSE call

\* DeleteById removing the file named by the id, whatever the previewImage
DeleteByIdUnlinkingById(c) ==
    \E id \in PathIds :
        LET call == Did([calls[c] EXCEPT !.op = "deleteById", !.id = id],
                        RepoCall("repo.findById", id, << >>))
            found == [call EXCEPT !.product = db[id]]
            path == StoragePath(StorageFileName(found.product, <<"png">>))
            after == Did([found EXCEPT !.unlink = "pending",
                                       !.unlinkPath = path],
                         << Event("fs.unlink", path, << >>) >>)
        IN  /\ Arrives(c)
            /\ calls' = [calls EXCEPT ![c] =
                   IF Exists(id)
                   THEN [after EXCEPT !.pc = "deleteById"]
                   ELSE Responds([call EXCEPT !.pc = "done"], "404")]
            /\ UNCHANGED <<db, nextId, files>>

\* DeleteById going on to productRepository.deleteById(id) without having
\* read an absent product
DeleteByIdUnread(c) ==
    \E id \in PathIds :
        LET call == [calls[c] EXCEPT !.op = "deleteById", !.id = id]
        IN  /\ Arrives(c)
            /\ calls' = [calls EXCEPT ![c] =
                   IF Exists(id)
                   THEN [(IF Truthy(db[id].previewImage)
                          THEN DeleteProductPreviewImage(
                                   [call EXCEPT !.product = db[id]])
                          ELSE [call EXCEPT !.product = db[id]])
                         EXCEPT !.pc = "deleteById"]
                   ELSE [call EXCEPT !.pc = "deleteById"]]
            /\ UNCHANGED <<db, nextId, files>>

\* deleteById(id) up to the call of productRepository.deleteById(id)
DeleteById(c) ==
    \E id \in PathIds :
        LET call == Did([calls[c] EXCEPT !.op = "deleteById", !.id = id],
                        RepoCall("repo.findById", id, << >>))
            found == [call EXCEPT !.product = db[id]]
            after == IF Truthy(found.product.previewImage)
                     THEN DeleteProductPreviewImage(found)
                     ELSE found
        IN  /\ Arrives(c)
            /\ calls' = [calls EXCEPT ![c] =
                   IF Exists(id)
                   THEN [after EXCEPT !.pc = "deleteById"]
                   ELSE Responds([call EXCEPT !.pc = "done"], "404")]
            /\ UNCHANGED <<db, nextId, files>>

\* productRepository.deleteById(id) takes effect, then the response
DeleteByIdRepo(c) ==
    LET call == calls[c]
    IN  /\ call.pc = "deleteById"
        /\ db' = IF Exists(call.id) THEN Remove(db, call.id) ELSE db
        /\ calls' = [calls EXCEPT ![c] =
               Responds(Did([call EXCEPT !.pc = "done"],
                            RepoCall("repo.deleteById", call.id, << >>)),
                        IF Exists(call.id) THEN "204" ELSE "404")]
        /\ UNCHANGED <<nextId, files>>

\* the outcomes of fs.unlink(path): removed, or failed (no such file, or
\* not permitted)
UnlinkOutcomes(path) ==
    (IF path \in DOMAIN files
     THEN {[error |-> FALSE, files |-> Remove(files, path)]}
     ELSE {})
    \cup {[error |-> TRUE, files |-> files]}

\* fs.unlink completes and its callback runs
UnlinkComplete(c) ==
    LET call == calls[c]
    IN  /\ call.unlink = "pending"
        /\ \E outcome \in UnlinkOutcomes(call.unlinkPath) :
               /\ files' = outcome.files
               /\ calls' = [calls EXCEPT ![c] =
                      Did([call EXCEPT !.unlink = "done"],
                          << Event("fs.unlink.done", call.unlinkPath,
                                   outcome.error) >>
                          \o (IF outcome.error
                              THEN << Event("console.warn", call.product.id,
                                            << >>) >>
                              ELSE << >>))]
        /\ UNCHANGED <<db, nextId>>

(***************************************************************************)
(* GET /product-images/{filename}                                          *)
(***************************************************************************)
\* process.cwd(), against which path.resolve resolves a relative path
Cwd == <<"/", "app">>

\* the file names requests ask for: a stored image, a path climbing out of
\* the image directory, an absolute path
FileNames ==
    {<<"preview_", "1", ".", "png">>,
     <<"..", "/", "..", "/", "package.json">>,
     <<"/", "etc", "/", "passwd">>}

\* files of the host outside the image directory that the server can read
HostFiles ==
    {<<"/", "app", "/", "package.json">>, <<"/", "etc", "/", "passwd">>}

\* the segments of a path with '' and '.' dropped and each '..' taking back
\* the segment before it
RECURSIVE NormalizeSegments(_, _)
NormalizeSegments(segments, kept) ==
    IF segments = << >>
    THEN kept
    ELSE LET segment == Head(segments)
             rest == Tail(segments)
         IN  IF segment = << >> \/ segment = <<".">>
             THEN NormalizeSegments(rest, kept)
             ELSE IF segment = <<"..">>
             THEN NormalizeSegments(rest,
                      IF kept = << >> THEN kept
                      ELSE SubSeq(kept, 1, Len(kept) - 1))
             ELSE NormalizeSegments(rest, Append(kept, segment))

\* '/' + segments.join('/')
RECURSIVE JoinAbsolute(_)
JoinAbsolute(segments) ==
    IF segments = << >>
    THEN << >>
    ELSE <<"/">> \o Head(segments) \o JoinAbsolute(Tail(segments))

\* path.resolve(directory, fileName)
PathResolve(directory, fileName) ==
    LET joined == IF fileName # << >> /\ Head(fileName) = "/"
                  THEN fileName
                  ELSE Cwd \o <<"/">> \o directory \o <<"/">> \o fileName
        segments == NormalizeSegments(Split(joined, "/"), << >>)
    IN  IF segments = << >> THEN <<"/">> ELSE JoinAbsolute(segments)

\* res.sendFile finds a file at the absolute path
Readable(filePath) ==
    \/ filePath \in HostFiles
    \/ \E path \in DOMAIN files : PathResolve(<< >>, path) = filePath

SendFile(c) ==
    \E fileName \in FileNames :
        LET filePath == PathResolve(imageStorageDirectory, fileName)
        IN  /\ Arrives(c)
            /\ calls' = [calls EXCEPT ![c] =
                   Responds(Did([@ EXCEPT !.op = "sendFile",
                                          !.fileName = fileName,
                                          !.pc = "done"],
                                << Event("res.sendFile", filePath, << >>) >>),
                            IF Readable(filePath) THEN "200" ELSE "404")]
            /\ UNCHANGED <<db, nextId, files>>

(***************************************************************************)
(* The specification.                                                      *)
(***************************************************************************)
Next ==
    \E c \in Calls :
        \/ Create(c)
        \/ FindById(c)
        \/ UpdateById(c)
        \/ ReplaceById(c)
        \/ WriteFileComplete(c)
        \/ WriteFileCallback(c)
        \/ DeleteById(c)
        \/ DeleteByIdRepo(c)
        \/ UnlinkComplete(c)
        \/ SendFile(c)

Spec == Init /\ [][Next]_vars

\* fs.writeFile completes and Node runs the callback of a completed write
FairSpec ==
    /\ Init
    /\ [][Next]_vars
    /\ \A c \in Calls :
           WF_vars(WriteFileComplete(c)) /\ WF_vars(WriteFileCallback(c))

(***************************************************************************)
(* Vocabulary of the properties.                                           *)
(***************************************************************************)
\* a string starting with the data-URI image prefix
IsDataImage(s) == s # undefined /\ StartsWith(s, DataImagePrefix)

\* data:image/<subtype>;base64,<payload> with subtype jpeg, png or jpg
WellFormedDataUri(s) ==
    /\ s # undefined
    /\ Len(s) = 6
    /\ s[1] = "data:image" /\ s[2] = "/" /\ s[3] \in ExtWords
    /\ s[4] = ";" /\ s[5] = "base64," /\ s[6] \in Payloads

\* the positions in a request's trace of the events of the given kinds
Events(call, kinds) == {i \in DOMAIN call.trace : call.trace[i].ev \in kinds}

FileStoreCalls == {"fs.writeFile", "fs.unlink"}

\* a PUT whose body carries a data-URI image, and one whose body does not
RawReplace(call) == call.op = "replaceById" /\ IsDataImage(call.body.previewImage)
PlainReplace(call) == call.op = "replaceById" /\ ~ IsDataImage(call.body.previewImage)

\* the write of the request completed, without and with an error
WriteSucceeded(call) ==
    \E i \in Events(call, {"fs.writeFile.done"}) : call.trace[i].arg = FALSE
WriteFailed(call) ==
    \E i \in Events(call, {"fs.writeFile.done"}) : call.trace[i].arg = TRUE

(***************************************************************************)
(* C1: in every reachable state, after any sequence of create, patch,      *)
(* replace and delete calls, the previewImage of every stored product is   *)
(* empty or a URL and never starts with the data-URI image prefix.         *)
(* The code stores a data-URI as it is on POST and PATCH, and on PUT when  *)
(* the file write fails.                                                   *)
(***************************************************************************)
C1_StoredPreviewImageNeverDataUri ==
    \A id \in DOMAIN db : ~ IsDataImage(db[id].previewImage)

(***************************************************************************)
(* C2: a PUT whose previewImage is absent, empty or no data-URI image      *)
(* calls the repository's replaceById exactly once, with the id of the     *)
(* path and the product exactly as given, and calls the file system not    *)
(* at all.                                                                 *)
(***************************************************************************)
C2_PlainReplaceDelegates ==
    \A c \in Calls :
        LET call == calls[c]
        IN  PlainReplace(call) =>
                /\ Cardinality(Events(call, {"repo.replaceById"})) = 1
                /\ \A i \in Events(call, {"repo.replaceById"}) :
                       /\ call.trace[i].target = call.id
                       /\ call.trace[i].arg = call.body
                /\ Events(call, FileStoreCalls) = {}
                /\ call.pc = "done" /\ call.unlink = "none"

\* a plain PUT whose previewImage is a URL replaced an existing product
C2_Witness ==
    \E c \in Calls :
        /\ PlainReplace(calls[c])
        /\ calls[c].response = "204"
        /\ calls[c].body.previewImage \in PlainImages \ {<< >>}
        /\ db[calls[c].id].previewImage = calls[c].body.previewImage

(***************************************************************************)
(* C3: a PUT of id whose previewImage is a well-formed data-URI of subtype *)
(* jpeg, png or jpg and whose file write succeeds writes the decoded bytes *)
(* to preview_<id>.<subtype>, and its repository write carries             *)
(* <scheme>://<host>/product-images/preview_<id>.<subtype> as previewImage,*)
(* scheme and host those of its request, the other properties unchanged.   *)
(* The code names the file by the id of the body, not by the id of the     *)
(* path.                                                                   *)
(***************************************************************************)
\* preview_<id>.<subtype> for the id of the path
C3_FileName(call) ==
    <<"preview_">> \o call.id \o <<".", call.body.previewImage[3]>>

C3_Case(call) ==
    /\ call.op = "replaceById"
    /\ WellFormedDataUri(call.body.previewImage)
    /\ WriteSucceeded(call)

C3_Holds(call) ==
    /\ \E i \in Events(call, {"fs.writeFile"}) :
           /\ call.trace[i].target =
                  <<"images", "/", "product", "/">> \o C3_FileName(call)
           /\ call.trace[i].arg = Base64Table[call.body.previewImage[6]]
    /\ \A i \in Events(call, {"repo.replaceById"}) :
           call.trace[i].arg =
               [call.body EXCEPT !.previewImage =
                    <<call.req.protocol, ":", "/", "/", call.req.host, "/",
                      "product-images", "/">> \o C3_FileName(call)]

C3_FileAndUrlNamedByPathId ==
    \A c \in Calls : C3_Case(calls[c]) => C3_Holds(calls[c])

\* the same, for the requests whose body carries the id of the path
C3_FileAndUrlWhenBodyIdIsPathId ==
    \A c \in Calls :
        C3_Case(calls[c]) /\ calls[c].body.id = calls[c].id => C3_Holds(calls[c])

(***************************************************************************)
(* C4: a data-URI PUT whose file write fails still calls the repository's  *)
(* replaceById, with the product as given, its previewImage the original   *)
(* data-URI; the caller receives the 204 and no error.                     *)
(***************************************************************************)
C4_FailedWriteStillReplaces ==
    \A c \in Calls :
        LET call == calls[c]
        IN  RawReplace(call) /\ WriteFailed(call) =>
                /\ call.response = "204"
                /\ call.pc \in {"callback", "done"}
                /\ call.pc = "callback" => ENABLED WriteFileCallback(c)
                /\ call.pc = "done" =>
                       /\ Cardinality(Events(call, {"repo.replaceById"})) = 1
                       /\ \A i \in Events(call, {"repo.replaceById"}) :
                              /\ call.trace[i].arg = call.body
                              /\ call.trace[i].arg.previewImage =
                                     call.body.previewImage

\* the write of a data-URI PUT failed and the stored product holds the data-URI
C4_Witness ==
    \E c \in Calls :
        /\ RawReplace(calls[c]) /\ WriteFailed(calls[c])
        /\ calls[c].pc = "done"
        /\ calls[c].body.id \in DOMAIN db
        /\ db[calls[c].body.id].previewImage = calls[c].body.previewImage
        /\ Events(calls[c], {"console.warn"}) # {}

(***************************************************************************)
(* C5: in every interleaving of concurrent requests, a data-URI PUT calls  *)
(* the repository's replaceById only after its own file write completed,   *)
(* with or without an error.                                               *)
(***************************************************************************)
C5_ReplaceAfterOwnWrite ==
    \A c \in Calls :
        LET call == calls[c]
        IN  RawReplace(call) =>
                \A i \in Events(call, {"repo.replaceById"}) :
                    \E j \in Events(call, {"fs.writeFile.done"}) :
                        /\ j < i
                        /\ \E k \in Events(call, {"fs.writeFile"}) : k < j

\* two data-URI PUTs of one id ran concurrently: one replaced the product
\* while the write of the other was in flight
C5_Witness ==
    \E c, d \in Calls :
        /\ c # d
        /\ RawReplace(calls[c]) /\ RawReplace(calls[d])
        /\ calls[c].body.id = calls[d].body.id
        /\ Events(calls[c], {"repo.replaceById"}) # {}
        /\ calls[d].pc = "writeFile"

(***************************************************************************)
(* Vocabulary of the properties of DELETE.                                 *)
(***************************************************************************)
\* a DELETE whose findById found the product
DeleteFound(call) == call.op = "deleteById" /\ call.product.id # undefined

\* the last path segment of a string: what follows its last "/"
LastSegment(s) ==
    LET slashes == {i \in 1..Len(s) : s[i] = "/"}
    IN  IF slashes = {}
        THEN s
        ELSE SubSeq(s, (CHOOSE i \in slashes : \A j \in slashes : j <= i) + 1,
                    Len(s))

\* <imageDirectory>/<name>
InImageDirectory(name) == <<"images", "/", "product", "/">> \o name

\* the DELETE goes on to the repository whatever became of the file, the
\* product is gone once it responded, and a 404 is the repository's: the
\* product was removed by another DELETE in between
DeleteRemovesRecord(c) ==
    LET call == calls[c]
    IN  /\ call.pc = "deleteById" => ENABLED DeleteByIdRepo(c)
        /\ call.pc = "done" =>
               /\ call.id \notin DOMAIN db
               /\ call.response \in {"204", "404"}
               /\ call.response = "404" =>
                      \E d \in Calls \ {c} :
                          /\ calls[d].op = "deleteById"
                          /\ calls[d].id = call.id
                          /\ calls[d].response = "204"

(***************************************************************************)
(* C6: a DELETE of an existing product with a non-empty previewImage       *)
(* requests exactly one file deletion, of <imageDirectory>/<last path      *)
(* segment of previewImage>, and then removes the product whether that     *)
(* deletion succeeds, fails or is still pending; its failure is never      *)
(* returned to the caller.                                                 *)
(* As stated, the claim fails for a previewImage ending in "/": its last   *)
(* segment is empty and the code requests no deletion.                     *)
(***************************************************************************)
C6_Original ==
    \A c \in Calls :
        LET call == calls[c]
        IN  DeleteFound(call) /\ Truthy(call.product.previewImage) =>
                /\ Cardinality(Events(call, {"fs.unlink"})) = 1
                /\ \A i \in Events(call, {"fs.unlink"}) :
                       call.trace[i].target =
                           InImageDirectory(LastSegment(call.product.previewImage))
                /\ Events(call, {"fs.writeFile"}) = {}
                /\ DeleteRemovesRecord(c)

\* C6 as amended: one file deletion when the last path segment of the
\* previewImage is non-empty, none when it is empty
C6_DeleteUnlinksLastSegment ==
    \A c \in Calls :
        LET call == calls[c]
            name == LastSegment(call.product.previewImage)
        IN  DeleteFound(call) /\ Truthy(call.product.previewImage) =>
                /\ Cardinality(Events(call, {"fs.unlink"})) =
                       IF name = << >> THEN 0 ELSE 1
                /\ \A i \in Events(call, {"fs.unlink"}) :
                       call.trace[i].target = InImageDirectory(name)
                /\ Events(call, {"fs.writeFile"}) = {}
                /\ DeleteRemovesRecord(c)

\* a DELETE answered 204 for a product whose previewImage is the URL a PUT
\* of a data-URI stored, the deletion of the file still pending
C6_Witness ==
    \E c, d \in Calls :
        /\ DeleteFound(calls[c])
        /\ RawReplace(calls[d]) /\ calls[d].pc = "done"
        /\ calls[c].product.previewImage = calls[d].product.previewImage
        /\ calls[c].response = "204"
        /\ calls[c].unlink = "pending"
        /\ calls[c].unlinkPath \in DOMAIN files

(***************************************************************************)
(* C7: a DELETE of an existing product whose previewImage is absent or     *)
(* empty calls the file system not at all and removes the product.         *)
(***************************************************************************)
C7_DeleteWithoutImage ==
    \A c \in Calls :
        LET call == calls[c]
        IN  DeleteFound(call) /\ ~ Truthy(call.product.previewImage) =>
                /\ Events(call, FileStoreCalls) = {}
                /\ call.unlink = "none"
                /\ DeleteRemovesRecord(c)

\* a DELETE removed a product whose previewImage is absent or empty
C7_Witness ==
    \E c \in Calls :
        /\ DeleteFound(calls[c])
        /\ ~ Truthy(calls[c].product.previewImage)
        /\ calls[c].response = "204"
        /\ calls[c].id \notin DOMAIN db

(***************************************************************************)
(* C8: for every operation by id (GET, PATCH, PUT in the plain and in the  *)
(* data-URI branch, DELETE) on an id the repository does not hold, the     *)
(* NotFound of the repository is what the caller receives.                 *)
(* In the data-URI branch of PUT the caller has its 204 before the         *)
(* repository is called; the NotFound is an unhandled rejection.           *)
(***************************************************************************)
C8_NotFoundReachesCaller ==
    \A c \in Calls :
        Events(calls[c], {"NotFound"}) # {} => calls[c].response = "404"

\* the same, for every request but the data-URI PUT
C8_NotFoundReachesCallerButRawReplace ==
    \A c \in Calls :
        Events(calls[c], {"NotFound"}) # {} /\ ~ RawReplace(calls[c]) =>
            calls[c].response = "404"

(***************************************************************************)
(* C9: in every reachable state the image directory holds, for each        *)
(* product id, at most one file named preview_<id>.<ext>.                  *)
(* Two data-URI PUTs of one id with different subtypes leave two files.    *)
(* The formula states the claim for the ids of stored products, in the     *)
(* states reached without a file system error by requests whose body       *)
(* carries the id of the path: there it fails already.                     *)
(***************************************************************************)
\* the path names a preview image of the id
IsPreviewOf(path, id) ==
    StartsWith(path, InImageDirectory(<<"preview_">> \o id \o <<".">>))

\* no file write and no file deletion of any request failed
NoFileStoreError ==
    \A c \in Calls :
        \A i \in Events(calls[c], {"fs.writeFile.done", "fs.unlink.done"}) :
            calls[c].trace[i].arg = FALSE

\* every PUT carries in its body the id of its path
BodyIdIsPathId ==
    \A c \in Calls :
        calls[c].op = "replaceById" => calls[c].body.id = calls[c].id

C9_OnePreviewFilePerId ==
    NoFileStoreError /\ BodyIdIsPathId =>
        \A id \in DOMAIN db :
            Cardinality({path \in DOMAIN files : IsPreviewOf(path, id)}) <= 1

(***************************************************************************)
(* C10: once a DELETE has removed the product of an id, and every pending  *)
(* file operation and callback has completed without a file system error,  *)
(* no file named preview_<id>.<ext> remains.                               *)
(* A data-URI PUT of the id that runs beside the DELETE writes its file    *)
(* after the DELETE looked at the product, and nothing removes it.         *)
(* The formula states the claim for requests whose body carries the id of  *)
(* the path.                                                               *)
(***************************************************************************)
\* no file operation is in flight and no callback is still to run
Quiescent ==
    \A c \in Calls : calls[c].pc \in {"idle", "done"} /\ calls[c].unlink # "pending"

C10_NoPreviewFileAfterDelete ==
    \A c \in Calls :
        (/\ calls[c].op = "deleteById"
         /\ calls[c].response = "204"
         /\ Quiescent
         /\ NoFileStoreError
         /\ BodyIdIsPathId) =>
            \A path \in DOMAIN files : ~ IsPreviewOf(path, calls[c].id)

(***************************************************************************)
(* C11: a data-URI PUT of id whose subtype is none of jpeg, png, jpg (gif) *)
(* is no error: the extension is empty, the file written is preview_<id>.  *)
(* and, the write succeeding, the stored previewImage ends with            *)
(* /product-images/preview_<id>.                                           *)
(* The extension is empty and nothing fails, but the code names the file   *)
(* by the id of the body, not by the id of the path.                       *)
(***************************************************************************)
\* s.endsWith(suffix)
EndsWith(s, suffix) ==
    /\ Len(s) >= Len(suffix)
    /\ SubSeq(s, Len(s) - Len(suffix) + 1, Len(s)) = suffix

\* data:image/<subtype>;base64,<payload> with a subtype other than the three
C11_Case(call) ==
    LET image == call.body.previewImage
    IN  /\ call.op = "replaceById"
        /\ IsDataImage(image)
        /\ Len(image) = 6
        /\ image[2] = "/" /\ image[3] \notin ExtWords
        /\ image[4] = ";" /\ image[5] = "base64,"

C11_Holds(call) ==
    LET name == <<"preview_">> \o call.id \o <<".">>
    IN  /\ call.response = "204"
        /\ \E i \in Events(call, {"fs.writeFile"}) :
               call.trace[i].target = InImageDirectory(name)
        /\ WriteSucceeded(call) =>
               \A i \in Events(call, {"repo.replaceById"}) :
                   EndsWith(call.trace[i].arg.previewImage,
                            <<"/", "product-images", "/">> \o name)

C11_UnknownSubtypeEmptyExtension ==
    \A c \in Calls : C11_Case(calls[c]) => C11_Holds(calls[c])

\* the same, for the requests whose body carries the id of the path
C11_EmptyExtensionWhenBodyIdIsPathId ==
    \A c \in Calls :
        C11_Case(calls[c]) /\ calls[c].body.id = calls[c].id =>
            C11_Holds(calls[c])

\* a gif PUT whose body carries the id of the path stored its URL
C11_Reached ==
    \E c \in Calls :
        /\ C11_Case(calls[c]) /\ calls[c].body.id = calls[c].id
        /\ WriteSucceeded(calls[c])
        /\ calls[c].id \in DOMAIN db
        /\ EndsWith(db[calls[c].id].previewImage,
                    <<"preview_">> \o calls[c].id \o <<".">>)

(***************************************************************************)
(* C12: GET /product-images/{filename} rejects with a client error every   *)
(* file name that holds a path traversal (a '..' segment or an absolute    *)
(* path), so the path it serves is always a file directly inside the image *)
(* directory.                                                              *)
(* sendFile resolves the name against the image directory and serves the   *)
(* result unchecked.                                                       *)
(***************************************************************************)
\* the file name holds a '..' segment or is an absolute path
HasTraversal(fileName) ==
    \/ fileName # << >> /\ Head(fileName) = "/"
    \/ <<"..">> \in {Split(fileName, "/")[i] :
                         i \in 1..Len(Split(fileName, "/"))}

\* the absolute path names a file directly inside the image directory
DirectlyInImageDirectory(filePath) ==
    LET directory == <<"/", "app", "/", "images", "/", "product", "/">>
    IN  /\ StartsWith(filePath, directory)
        /\ Len(filePath) > Len(directory)
        /\ \A i \in (Len(directory) + 1)..Len(filePath) : filePath[i] # "/"

ClientErrors == {"400", "403", "404"}

C12_ServeImageRejectsTraversal ==
    \A c \in Calls :
        LET call == calls[c]
        IN  call.op = "sendFile" =>
                /\ HasTraversal(call.fileName) => call.response \in ClientErrors
                /\ call.response = "200" =>
                       \A i \in Events(call, {"res.sendFile"}) :
                           DirectlyInImageDirectory(call.trace[i].target)

\* the same, for the file names without a traversal
C12_PlainNamesStayInImageDirectory ==
    \A c \in Calls :
        LET call == calls[c]
        IN  call.op = "sendFile" /\ ~ HasTraversal(call.fileName) =>
                \A i \in Events(call, {"res.sendFile"}) :
                    DirectlyInImageDirectory(call.trace[i].target)

\* a stored image was served
C12_Reached ==
    \E c \in Calls :
        /\ calls[c].op = "sendFile"
        /\ ~ HasTraversal(calls[c].fileName)
        /\ calls[c].response = "200"

(***************************************************************************)
(* C13: the data-URI branch of PUT /products/{id} returns to its caller    *)
(* without waiting for the file write: from the moment the write is        *)
(* scheduled the caller has its 204, and the completion of the write and   *)
(* the replace of the record come after the response; a state is reachable *)
(* in which the caller has its 204 while the write has not completed and   *)
(* the replace has not been issued.                                        *)
(***************************************************************************)
C13_ReturnsBeforeWrite ==
    \A c \in Calls :
        LET call == calls[c]
        IN  RawReplace(call) =>
                /\ call.response = "204"
                /\ \A r \in Events(call, {"response"}) :
                       /\ \E w \in Events(call, {"fs.writeFile"}) : w < r
                       /\ \A e \in Events(call, {"fs.writeFile.done",
                                                 "repo.replaceById"}) : r < e

\* the caller has its 204; the write is pending and no replace was issued
C13_Witness ==
    \E c \in Calls :
        /\ RawReplace(calls[c])
        /\ calls[c].pc = "writeFile"
        /\ calls[c].response = "204"
        /\ Events(calls[c], {"response"}) # {}
        /\ Events(calls[c], {"fs.writeFile.done", "repo.replaceById"}) = {}
        /\ calls[c].storageFileName # << >>
        /\ StoragePath(calls[c].storageFileName) \notin DOMAIN files

(***************************************************************************)
(* C14: two concurrent data-URI PUTs for the same id and the same          *)
(* extension are not serialized.  Every replace a callback issues on a     *)
(* stored id leaves that call's product as the stored record, whatever the *)
(* other call has written (the last replace wins), and a final state is    *)
(* reachable in which the stored record comes from one call while the      *)
(* bytes of preview_<id>.<ext> come from the other.                        *)
(***************************************************************************)
C14_LastReplaceWins ==
    [][\A c \in Calls :
           /\ RawReplace(calls[c])
           /\ calls[c].pc = "callback" /\ calls'[c].pc = "done"
           /\ calls[c].product.id \in DOMAIN db
           => /\ calls'[c].product.id \in DOMAIN db'
              /\ db'[calls'[c].product.id] = calls'[c].product]_vars

\* both calls are over, their writes succeeded; the record is the one of
\* call c, the file holds the bytes of call d
C14_Witness ==
    \E c, d \in Calls :
        LET path == StoragePath(calls[c].storageFileName)
        IN  /\ c # d
            /\ RawReplace(calls[c]) /\ RawReplace(calls[d])
            /\ calls[c].pc = "done" /\ calls[d].pc = "done"
            /\ calls[c].id = calls[d].id
            /\ calls[c].body.id = calls[c].id /\ calls[d].body.id = calls[d].id
            /\ calls[c].storageFileName = calls[d].storageFileName
            /\ WriteSucceeded(calls[c]) /\ WriteSucceeded(calls[d])
            /\ calls[c].buf # calls[d].buf
            /\ calls[c].product # calls[d].product
            /\ calls[c].id \in DOMAIN db
            /\ db[calls[c].id] = calls[c].product
            /\ path \in DOMAIN files
            /\ files[path] = calls[d].buf

(***************************************************************************)
(* C15: in the data-URI branch of PUT /products/{id} the storage file name *)
(* preview_<id>.<ext> and the target of the repository's replaceById are   *)
(* both derived from the id of the path, also when the body carries        *)
(* another id or none; so PUTs addressed to distinct ids never write the   *)
(* same file path.                                                         *)
(* handleRawImageProductReplacement receives the product only and takes    *)
(* product.id for both.                                                    *)
(***************************************************************************)
\* the file and the replace of the call are those of the id of its path
C15_DerivedFromPathId(call) ==
    /\ \A i \in Events(call, {"fs.writeFile"}) :
           StartsWith(call.trace[i].target,
                      InImageDirectory(<<"preview_">> \o call.id \o <<".">>))
    /\ \A i \in Events(call, {"repo.replaceById"}) :
           call.trace[i].target = call.id

\* the paths the call has asked fs.writeFile to write
C15_WrittenPaths(call) ==
    {call.trace[i].target : i \in Events(call, {"fs.writeFile"})}

C15_PathIdNamesFileAndReplace ==
    /\ \A c \in Calls : RawReplace(calls[c]) => C15_DerivedFromPathId(calls[c])
    /\ \A c, d \in Calls :
           /\ RawReplace(calls[c]) /\ RawReplace(calls[d])
           /\ calls[c].id # calls[d].id
           => C15_WrittenPaths(calls[c]) \cap C15_WrittenPaths(calls[d]) = {}

\* the same, for the requests whose body carries the id of the path
C15_HoldsWhenBodyIdIsPathId ==
    /\ \A c \in Calls :
           RawReplace(calls[c]) /\ calls[c].body.id = calls[c].id
           => C15_DerivedFromPathId(calls[c])
    /\ \A c, d \in Calls :
           /\ RawReplace(calls[c]) /\ RawReplace(calls[d])
           /\ calls[c].body.id = calls[c].id /\ calls[d].body.id = calls[d].id
           /\ calls[c].id # calls[d].id
           => C15_WrittenPaths(calls[c]) \cap C15_WrittenPaths(calls[d]) = {}

\* two PUTs addressed to distinct ids have written the same file path
C15_SharedPath ==
    \E c, d \in Calls :
        /\ RawReplace(calls[c]) /\ RawReplace(calls[d])
        /\ calls[c].id # calls[d].id
        /\ WriteSucceeded(calls[c]) /\ WriteSucceeded(calls[d])
        /\ calls[c].storageFileName = calls[d].storageFileName

(***************************************************************************)
(* C16: every data-URI PUT makes exactly one file-write attempt and, when  *)
(* the file store's completions are scheduled fairly, eventually issues    *)
(* exactly one replaceById of the repository, whether the write succeeded  *)
(* or failed; no call issues none, and none issues more than one.          *)
(***************************************************************************)
\* the number of events of the kinds in the trace of the call
C16_Count(call, kinds) == Cardinality(Events(call, kinds))

C16_OneWriteOneReplace ==
    /\ [](\A c \in Calls :
              RawReplace(calls[c]) =>
                  /\ C16_Count(calls[c], {"fs.writeFile"}) = 1
                  /\ C16_Count(calls[c], {"fs.writeFile.done"}) <= 1
                  /\ C16_Count(calls[c], {"repo.replaceById"}) <= 1
                  /\ calls[c].pc = "done" =>
                         C16_Count(calls[c], {"repo.replaceById"}) = 1)
    /\ <>[](\A c \in Calls :
                RawReplace(calls[c]) =>
                    /\ calls[c].pc = "done"
                    /\ C16_Count(calls[c], {"fs.writeFile"}) = 1
                    /\ C16_Count(calls[c], {"repo.replaceById"}) = 1)

\* one call replaced after a failed write, another after a successful one
C16_Witness ==
    \E c, d \in Calls :
        /\ RawReplace(calls[c]) /\ WriteFailed(calls[c])
        /\ RawReplace(calls[d]) /\ WriteSucceeded(calls[d])
        /\ \A e \in {c, d} :
               /\ calls[e].pc = "done"
               /\ C16_Count(calls[e], {"fs.writeFile"}) = 1
               /\ C16_Count(calls[e], {"repo.replaceById"}) = 1

(***************************************************************************)
(* C17: a DELETE of id only ever asks the file store to delete a file      *)
(* named preview_<id>.<ext> for that same id, whatever previewImage the    *)
(* product holds (set through create, patch or replace); so deleting one   *)
(* product never removes the image file of another.                        *)
(* deleteProductPreviewImage deletes the file named by the last segment of *)
(* the stored previewImage, which create, patch and plain replace store as *)
(* given.                                                                  *)
(***************************************************************************)
C17_DeleteUnlinksOwnPreviewOnly ==
    \A c \in Calls :
        calls[c].op = "deleteById" =>
            \A i \in Events(calls[c], {"fs.unlink"}) :
                IsPreviewOf(calls[c].trace[i].target, calls[c].id)

\* the same, for products whose previewImage names a preview of their own id
C17_HoldsForOwnPreviewUrls ==
    \A c \in Calls :
        /\ calls[c].op = "deleteById"
        /\ IsPreviewOf(InImageDirectory(LastSegment(calls[c].product.previewImage)),
                       calls[c].id)
        => \A i \in Events(calls[c], {"fs.unlink"}) :
               IsPreviewOf(calls[c].trace[i].target, calls[c].id)

\* a DELETE of one id has removed the preview file of another id
C17_ForeignFileRemoved ==
    \E c \in Calls, id \in StoreIds :
        /\ calls[c].op = "deleteById"
        /\ id # calls[c].id
        /\ \E i \in Events(calls[c], {"fs.unlink.done"}) :
               /\ calls[c].trace[i].arg = FALSE
               /\ IsPreviewOf(calls[c].trace[i].target, id)

(***************************************************************************)
(* C18: a DELETE of id reads the product before any other effect: when the *)
(* id is absent from the repository the call fails with NotFound, having   *)
(* made no file store call and no deleteById of the repository, and leaves *)
(* the repository and the image directory unchanged.                       *)
(***************************************************************************)
\* the trace of a DELETE that found no product: the read, its NotFound, the
\* 404
C18_NotFoundTrace(id) ==
    << Event("repo.findById", id, << >>),
       Event("NotFound", id, << >>),
       Event("response", "404", << >>) >>

C18_AbsentDeleteHasNoEffect ==
    [][\A c \in Calls :
           /\ calls[c].pc = "idle"
           /\ calls'[c].op = "deleteById"
           /\ calls'[c].id \notin DOMAIN db
           => /\ calls'[c].pc = "done"
              /\ calls'[c].response = "404"
              /\ calls'[c].trace = C18_NotFoundTrace(calls'[c].id)
              /\ calls'[c].unlink = "none"
              /\ db' = db
              /\ files' = files]_vars

\* a DELETE of an absent id is over with its 404, beside a stored product
\* and a stored file
C18_Witness ==
    \E c \in Calls :
        /\ calls[c].op = "deleteById"
        /\ calls[c].pc = "done"
        /\ calls[c].response = "404"
        /\ calls[c].trace = C18_NotFoundTrace(calls[c].id)
        /\ Events(calls[c], FileStoreCalls \cup {"repo.deleteById"}) = {}
        /\ calls[c].id \notin DOMAIN db
        /\ DOMAIN db # {}
        /\ DOMAIN files # {}
=============================================================================
